---- MODULE Spec2Model ----
(***************************************************************************)
(* Donation workflow of the blood-bank backend: the acceptDonation and     *)
(* rejectDonation handlers of controllers/acceptDonation.controllers.ts,   *)
(* run as concurrent invocations against one relational store, one local  *)
(* file system and one object storage.  Every `await` of a handler is a    *)
(* suspension point, so every awaited call is one action.                  *)
(***************************************************************************)
EXTENDS Integers, Sequences, FiniteSets, TLC

(* ---------------------------------------------------------------- bounds *)
\* largest numberOfUnits a request body carries in the model (schema: 1..10)
MaxUnits == 2

(* ------------------------------------------------------------- constants *)
Null == "null"

\* concurrent handler invocations
Invocations == {"h1", "h2"}

\* rows of the bloodBanks table
BloodBanks == {"bankA", "bankB"}

\* req.user?.userId as set by the auth middleware; Null when absent.  bankC is
\* an authenticated actor whose bloodBanks row no longer exists
UserIds == BloodBanks \cup {"bankC", Null}

\* ids of the DonationRequest rows
RequestIds == {"req1", "req2", "req3"}

\* a well-formed id that no DonationRequest row has
MissingRequestId == "req0"

\* the strings that have the format of a UUID
Uuids == RequestIds \cup {MissingRequestId}

\* DonationRequest.bloodBankId, fixed when the row is created
RequestBloodBank ==
    [r \in RequestIds |-> CASE r = "req1" -> "bankA"
                            [] r = "req2" -> "bankB"
                            [] r = "req3" -> "bankC"]

\* the steps of the handlers (one per await) and the step that threw
HandlerPcs == {"idle", "findRequest", "findBank", "txUpdate", "txCreate",
               "findDonor", "findPatient", "generate", "upload", "saveUrl",
               "finally", "catch", "rejectUpdate", "done"}

ThrowSites == {"none", "findRequest", "findBank", "tx", "donor", "patient",
               "generate", "upload", "saveUrl", "unlink", "rejectUpdate"}

(* ------------------------------------------------------- pure functions  *)
Digit(d) ==
    CASE d = 0 -> "0" [] d = 1 -> "1" [] d = 2 -> "2" [] d = 3 -> "3"
      [] d = 4 -> "4" [] d = 5 -> "5" [] d = 6 -> "6" [] d = 7 -> "7"
      [] d = 8 -> "8" [] d = 9 -> "9"

\* a conversion that numbers from zero
toStringFromZero(n) == Digit((n - 1) % 10)

RECURSIVE toString(_)
\* Number.prototype.toString() of a positive integer: its decimal digits
toString(n) == IF n < 10 THEN Digit(n) ELSE toString(n \div 10) \o Digit(n % 10)

\* the path of the temp file the certificate generator writes for an invocation
TmpPath(h) == "generated-pdfs/certificate_" \o h \o ".pdf"

\* public_id of the uploaded certificate
PublicId(r) == "donation_certificates/certificate_" \o r

\* uploadResult.secure_url
SecureUrl(r) == "https://cdn/raw/upload/" \o PublicId(r)

(* ------------------------------------------------- acceptDonationSchema *)
MaxNumberOfUnits == 10
DefaultNumberOfUnits == 1
MaxExpiryDays == 42
DefaultExpiryDays == 35
MaxNotesLength == 500

\* JSON values of a request body: a missing key, a string (with its length)
\* and a non-negative number int + frac/10
Absent == [t |-> "absent"]
Str(v, len) == [t |-> "str", v |-> v, len |-> len]
Num(k, f) == [t |-> "num", int |-> k, frac |-> f]

\* .min(n) and .max(n) of z.number()
AtLeast(x, n) == x.int >= n
AtMost(x, n) == x.int < n \/ (x.int = n /\ x.frac = 0)

\* z.uuid(): a string in UUID format, required
UuidIssue(x) == ~(x.t = "str" /\ x.v \in Uuids)

\* z.number().min(lo).max(hi).optional(): any number in the closed range
NumberIssue(x, lo, hi) ==
    x.t # "absent" /\ ~(x.t = "num" /\ AtLeast(x, lo) /\ AtMost(x, hi))

\* z.string().max(500).optional()
NotesIssue(x) == x.t # "absent" /\ ~(x.t = "str" /\ x.len <= MaxNotesLength)

\* the paths of error.issues of acceptDonationSchema.parse(req.body)
Issues(b) ==
    {f \in {"donationRequestId", "numberOfUnits", "notes", "expiryDays"} :
        CASE f = "donationRequestId" -> UuidIssue(b.donationRequestId)
          [] f = "numberOfUnits" -> NumberIssue(b.numberOfUnits, 1, MaxNumberOfUnits)
          [] f = "notes" -> NotesIssue(b.notes)
          [] f = "expiryDays" -> NumberIssue(b.expiryDays, 1, MaxExpiryDays)}

\* a number as the handler holds it: an integer, or the non-integer value itself
NumberValue(x) == IF x.frac = 0 THEN x.int ELSE x

\* .default(d)
OrDefault(x, d) == IF x.t = "absent" THEN d ELSE NumberValue(x)

\* validatedData of a body without issues
Validated(b) ==
    [donationRequestId |-> b.donationRequestId.v,
     numberOfUnits |-> OrDefault(b.numberOfUnits, DefaultNumberOfUnits),
     expiryDays |-> OrDefault(b.expiryDays, DefaultExpiryDays)]

\* a body with the given id and numberOfUnits and nothing else
Body(id, n) == [donationRequestId |-> id, numberOfUnits |-> n,
                notes |-> Absent, expiryDays |-> Absent]

\* bodies of the concurrent invocations: every id with numberOfUnits omitted
\* or an integer up to MaxUnits, and one body for each kind of schema issue
AcceptBodies ==
    {Body(Str(r, 36), n) :
        r \in Uuids, n \in {Absent} \cup {Num(k, 0) : k \in 1..MaxUnits}}
    \cup {Body(Str("not-a-uuid", 10), Num(1, 0)),
          Body(Str("req1", 36), Num(0, 0)),
          Body(Str("req1", 36), Num(MaxNumberOfUnits + 1, 0)),
          [Body(Str("req1", 36), Num(1, 0)) EXCEPT !.notes = Str("n", MaxNotesLength + 1)],
          [Body(Str("req1", 36), Num(1, 0)) EXCEPT !.expiryDays = Num(MaxExpiryDays + 1, 0)]}

(* ------------------------------------------------------------- variables *)
VARIABLES
    donationRequest,   \* table: id -> [bloodBankId, status, certificateUrl]
    bloodUnit,         \* table: set of committed BloodUnit rows
    rowLock,           \* id -> invocation whose open transaction wrote the row, or Null
    files,             \* paths that exist in local storage
    cloud,             \* public_ids that exist in object storage
    pc,                \* invocation -> step of its handler
    op,                \* invocation -> "accept" | "reject" | Null
    bloodBankUserId,   \* invocation -> req.user?.userId
    body,              \* invocation -> req.body of acceptDonation
    donationRequestId, \* invocation -> id in the body / the path
    numberOfUnits,     \* invocation -> validated numberOfUnits
    found,             \* invocation -> status seen by its findFirst, Null if no row
    i,                 \* invocation -> loop counter of the creation loop
    txStatus,          \* invocation -> uncommitted status write of its transaction
    txUnits,           \* invocation -> uncommitted BloodUnit rows of its transaction
    pdfFilePath,       \* invocation -> local pdfFilePath
    certificateUrl,    \* invocation -> local certificateUrl
    finalMessage,      \* invocation -> parts of finalMessage
    donorDetails,      \* invocation -> result of the donors lookup
    patientDetails,    \* invocation -> result of the patients lookup
    thrown,            \* invocation -> call whose exception a catch block caught
    unlinkCalls,       \* invocation -> number of fs.unlink calls made
    resStatus,         \* invocation -> HTTP status sent, 0 before the response
    resCertificateUrl  \* invocation -> data.certificateUrl of the response

dbVars == <<donationRequest, bloodUnit, rowLock>>
envVars == <<files, cloud>>
inputVars == <<op, bloodBankUserId, body, donationRequestId, numberOfUnits>>
localVars == <<found, i, txStatus, txUnits, donorDetails, patientDetails, pdfFilePath,
               certificateUrl, finalMessage, thrown, unlinkCalls>>
resVars == <<resStatus, resCertificateUrl>>

\* acceptDonation's computation of the dates of its BloodUnit rows
VARIABLES
    now,               \* the calendar date of the server's clock
    ticks,             \* midnights that have passed since the handler started
    datePc,            \* position in the computation
    expiryDays,        \* validatedData.expiryDays
    donationDate,      \* local donationDate
    expiryDate,        \* local expiryDate
    unitDates          \* donationDate and expiryDate of the rows created

dateVars == <<now, ticks, datePc, expiryDays, donationDate, expiryDate, unitDates>>

\* getBloodUnits
VARIABLES
    unitsPc,           \* position of the invocation of getBloodUnits
    unitsUser,         \* its req.user?.userId
    queryStatus,       \* its req.query.status
    unitsRes           \* its response: status, data, summary

unitsVars == <<unitsPc, unitsUser, queryStatus, unitsRes>>

\* donorLogin, patientLogin, adminLogin
VARIABLES
    loginPc,           \* position of the invocation of a login handler
    loginRole,         \* the handler: "donor", "patient" or "admin"
    loginData,         \* its req.body
    loginAccount,      \* the row its findFirst returned
    loginRes           \* its response: status and Set-Cookie headers

loginVars == <<loginPc, loginRole, loginData, loginAccount, loginRes>>

\* downloadDonationCertificate
VARIABLES
    downloadPc,        \* position of the invocation
    downloadUser,      \* its req.user?.userId, Null for undefined
    downloadId,        \* its req.params.donationRequestId
    downloadRes        \* its response: status and the certificate streamed

downloadVars == <<downloadPc, downloadUser, downloadId, downloadRes>>

\* corsEnhancementMiddleware
VARIABLES
    additionalOrigins, \* process.env.ADDITIONAL_CORS_ORIGINS when the module loads
    allowedOrigins,    \* corsConfig.allowedOrigins
    corsReq,           \* the request: its Origin header and its method
    corsRes            \* headers set, status sent, whether next() was called

corsVars == <<additionalOrigins, allowedOrigins, corsReq, corsRes>>

\* verifyAuth
VARIABLES
    authPc,            \* position of the invocation
    authCookie,        \* req.cookies?.authToken
    authUserId,        \* decoded.userId
    authTables,        \* the ids in the donors, patients and bloodBanks tables
    authRes            \* its response: status, message, role

authVars == <<authPc, authCookie, authUserId, authTables, authRes>>

auxVars == <<dateVars, unitsVars, loginVars, downloadVars, corsVars, authVars>>

\* the state of the handlers above
oldVars == <<dbVars, envVars, pc, inputVars, localVars, resVars,
             dateVars, unitsVars, loginVars>>
acceptVars == <<dbVars, envVars, pc, inputVars, localVars, resVars>>
vars == <<acceptVars, auxVars>>

\* what the date computation leaves alone
exceptDates == <<acceptVars, unitsVars, loginVars, downloadVars, corsVars, authVars>>

\* what getBloodUnits leaves alone
exceptUnits == <<acceptVars, dateVars, loginVars, downloadVars, corsVars, authVars>>

\* what the login handlers leave alone
exceptLogin == <<acceptVars, dateVars, unitsVars, downloadVars, corsVars, authVars>>

\* getBloodUnits has not been called
UnitsIdle ==
    /\ unitsPc = "idle"
    /\ unitsUser = Null
    /\ queryStatus = Null
    /\ unitsRes = Null

\* no login handler has been called
LoginIdle ==
    /\ loginPc = "idle"
    /\ loginRole = Null
    /\ loginData = Null
    /\ loginAccount = Null
    /\ loginRes = Null

\* no date computation is under way
DatesIdle ==
    /\ now = Null
    /\ ticks = 0
    /\ datePc = "idle"
    /\ expiryDays = 0
    /\ donationDate = Null
    /\ expiryDate = Null
    /\ unitDates = {}

\* downloadDonationCertificate has not been called
DownloadIdle ==
    /\ downloadPc = "idle"
    /\ downloadUser = Null
    /\ downloadId = Null
    /\ downloadRes = Null

\* the middleware has not been loaded
CorsIdle ==
    /\ additionalOrigins = Null
    /\ allowedOrigins = <<>>
    /\ corsReq = [origin |-> Null, method |-> Null]
    /\ corsRes = [headers |-> <<>>, status |-> 0, next |-> FALSE]

\* verifyAuth has not been called
AuthIdle ==
    /\ authPc = "idle"
    /\ authCookie = Null
    /\ authUserId = Null
    /\ authTables = Null
    /\ authRes = Null

\* the DonationRequest rows before any acceptance or rejection
PendingRequests ==
    [r \in RequestIds |->
        [bloodBankId |-> RequestBloodBank[r], status |-> "pending",
         certificateUrl |-> Null]]

\* the invocations of acceptDonation and rejectDonation before any request
InitAccept ==
    /\ rowLock = [r \in RequestIds |-> Null]
    /\ files = {}
    /\ cloud = {}
    /\ pc = [h \in Invocations |-> "idle"]
    /\ op = [h \in Invocations |-> Null]
    /\ bloodBankUserId = [h \in Invocations |-> Null]
    /\ body = [h \in Invocations |-> Null]
    /\ donationRequestId = [h \in Invocations |-> Null]
    /\ numberOfUnits = [h \in Invocations |-> 0]
    /\ found = [h \in Invocations |-> Null]
    /\ i = [h \in Invocations |-> 0]
    /\ txStatus = [h \in Invocations |-> Null]
    /\ txUnits = [h \in Invocations |-> {}]
    /\ donorDetails = [h \in Invocations |-> Null]
    /\ patientDetails = [h \in Invocations |-> Null]
    /\ pdfFilePath = [h \in Invocations |-> Null]
    /\ certificateUrl = [h \in Invocations |-> Null]
    /\ finalMessage = [h \in Invocations |-> <<>>]
    /\ thrown = [h \in Invocations |-> "none"]
    /\ unlinkCalls = [h \in Invocations |-> 0]
    /\ resStatus = [h \in Invocations |-> 0]
    /\ resCertificateUrl = [h \in Invocations |-> Null]

Init ==
    /\ donationRequest = PendingRequests
    /\ bloodUnit = {}
    /\ InitAccept
    /\ DatesIdle
    /\ UnitsIdle
    /\ LoginIdle
    /\ DownloadIdle
    /\ CorsIdle
    /\ AuthIdle

(* ------------------------------------------------------------- responses *)
\* return res.status(s).json(...) of a handler: the invocation ends
Respond(h, s, url) ==
    /\ pc' = [pc EXCEPT ![h] = "done"]
    /\ resStatus' = [resStatus EXCEPT ![h] = s]
    /\ resCertificateUrl' = [resCertificateUrl EXCEPT ![h] = url]

\* an awaited call of the outer try block throws while pdfFilePath is null:
\* the outer catch answers 500 without any further await
Throw500(h, site) ==
    /\ thrown' = [thrown EXCEPT ![h] = site]
    /\ Respond(h, 500, Null)

(* ------------------------------------------------ acceptDonation, lookups *)
\* the inputs of a request become the handler's: validatedData for
\* acceptDonation, req.params for rejectDonation
TakeInputs(h, o, u, b, r, n) ==
    /\ op' = [op EXCEPT ![h] = o]
    /\ bloodBankUserId' = [bloodBankUserId EXCEPT ![h] = u]
    /\ body' = [body EXCEPT ![h] = b]
    /\ donationRequestId' = [donationRequestId EXCEPT ![h] = r]
    /\ numberOfUnits' = [numberOfUnits EXCEPT ![h] = n]

\* if (!bloodBankUserId) return res.status(401)...; otherwise the findFirst
\* is issued
CheckUser(h, u) ==
    IF u = Null
      THEN Respond(h, 401, Null)
      ELSE /\ pc' = [pc EXCEPT ![h] = "findRequest"]
           /\ UNCHANGED resVars

\* an acceptDonation that tests the caller before it parses the body
AcceptUserFirst(h, u, b) ==
    IF u = Null
      THEN /\ TakeInputs(h, "accept", u, b, Null, 0)
           /\ Respond(h, 401, Null)
      ELSE IF Issues(b) # {}
        THEN /\ TakeInputs(h, "accept", u, b, Null, 0)
             /\ Respond(h, 400, Null)
        ELSE /\ TakeInputs(h, "accept", u, b, Validated(b).donationRequestId,
                           Validated(b).numberOfUnits)
             /\ CheckUser(h, u)

\* acceptDonation up to its first await: acceptDonationSchema.parse(req.body)
\* throws a ZodError (400 from the outer catch) or gives validatedData, then
\* the caller is tested
AcceptStart(h, u, b) ==
    IF Issues(b) # {}
      THEN /\ TakeInputs(h, "accept", u, b, Null, 0)
           /\ Respond(h, 400, Null)
      ELSE /\ TakeInputs(h, "accept", u, b, Validated(b).donationRequestId,
                         Validated(b).numberOfUnits)
           /\ CheckUser(h, u)

\* rejectDonation up to its first await: the id comes from req.params
RejectStart(h, u, r) ==
    /\ TakeInputs(h, "reject", u, Null, r, 0)
    /\ CheckUser(h, u)

\* a request arrives at one of the two handlers
Start(h) ==
    /\ pc[h] = "idle"
    /\ \/ \E u \in UserIds, b \in AcceptBodies : AcceptStart(h, u, b)
       \/ \E u \in UserIds, r \in Uuids : RejectStart(h, u, r)
    /\ UNCHANGED <<dbVars, envVars, localVars>>
    /\ UNCHANGED auxVars

\* where: { id, bloodBankId: bloodBankUserId } with no filter on status
MatchesAnyStatus(h) ==
    /\ donationRequestId[h] \in RequestIds
    /\ donationRequest[donationRequestId[h]].bloodBankId = bloodBankUserId[h]

\* where: { id, status: "pending" } with no filter on bloodBankId
MatchesAnyOwner(h) ==
    /\ donationRequestId[h] \in RequestIds
    /\ donationRequest[donationRequestId[h]].status = "pending"

\* where: { id: donationRequestId, bloodBankId: bloodBankUserId, status: "pending" }
Matches(h) ==
    /\ donationRequestId[h] \in RequestIds
    /\ donationRequest[donationRequestId[h]].bloodBankId = bloodBankUserId[h]
    /\ donationRequest[donationRequestId[h]].status = "pending"

\* prisma.donationRequest.findFirst of both handlers, and the 404 that follows
FindRequest(h) ==
    /\ pc[h] = "findRequest"
    /\ IF Matches(h)
         THEN /\ found' = [found EXCEPT ![h] = donationRequest[donationRequestId[h]].status]
              /\ pc' = [pc EXCEPT ![h] = IF op[h] = "accept" THEN "findBank"
                                                              ELSE "rejectUpdate"]
              /\ UNCHANGED resVars
         ELSE /\ Respond(h, 404, Null)
              /\ UNCHANGED found
    /\ UNCHANGED <<dbVars, envVars, inputVars, i, txStatus, txUnits, donorDetails, patientDetails,
                   pdfFilePath, certificateUrl, finalMessage, thrown, unlinkCalls>>
    /\ UNCHANGED auxVars

\* the store rejects the findFirst: the handler's catch answers 500
FindRequestThrows(h) ==
    /\ pc[h] = "findRequest"
    /\ Throw500(h, "findRequest")
    /\ UNCHANGED <<dbVars, envVars, inputVars, found, i, txStatus, txUnits,
                   donorDetails, patientDetails, pdfFilePath, certificateUrl, finalMessage,
                   unlinkCalls>>
    /\ UNCHANGED auxVars

\* a handler that writes the new status before it looks the blood bank up
FindBankAfterUpdate(h) ==
    /\ pc[h] = "findBank"
    /\ donationRequest' = [donationRequest EXCEPT
                             ![donationRequestId[h]].status = "success"]
    /\ IF bloodBankUserId[h] \in BloodBanks
         THEN /\ pc' = [pc EXCEPT ![h] = "txUpdate"]
              /\ UNCHANGED resVars
         ELSE Respond(h, 404, Null)
    /\ UNCHANGED <<bloodUnit, rowLock, envVars, inputVars, localVars>>
    /\ UNCHANGED auxVars

\* prisma.bloodBanks.findUnique and the 404 that follows
FindBank(h) ==
    /\ pc[h] = "findBank"
    /\ IF bloodBankUserId[h] \in BloodBanks
         THEN /\ pc' = [pc EXCEPT ![h] = "txUpdate"]
              /\ UNCHANGED resVars
         ELSE Respond(h, 404, Null)
    /\ UNCHANGED <<dbVars, envVars, inputVars, localVars>>
    /\ UNCHANGED auxVars

FindBankThrows(h) ==
    /\ pc[h] = "findBank"
    /\ Throw500(h, "findBank")
    /\ UNCHANGED <<dbVars, envVars, inputVars, found, i, txStatus, txUnits,
                   donorDetails, patientDetails, pdfFilePath, certificateUrl, finalMessage,
                   unlinkCalls>>
    /\ UNCHANGED auxVars

(* -------------------------------------------- acceptDonation, transaction *)
\* bloodBank.name of the bloodBanks rows
BloodBankName == [b \in BloodBanks |-> "Blood Bank " \o b]

\* `${bloodBank.name}-${donationRequestId.slice(-8)}-${i}`; slice(-8) of an
\* id of fewer than 8 characters, as the ids here are, is the whole id
Barcode(name, id, n) == name \o "-" \o id \o "-" \o toString(n)

\* the BloodUnit row of loop iteration n; its id is generated by the store
NewBloodUnit(h, n) ==
    [id |-> <<h, n>>,
     unitNumber |-> toString(n),
     donationRequestId |-> donationRequestId[h],
     bloodBankId |-> bloodBankUserId[h],
     status |-> "available",
     barcode |-> Barcode(BloodBankName[bloodBankUserId[h]], donationRequestId[h], n)]

\* a create issued on the global client: the row is visible at once
CreateOutsideTx(h, row) ==
    /\ txUnits' = [txUnits EXCEPT ![h] = @ \cup {row}]
    /\ bloodUnit' = bloodUnit \cup {row}

\* tx.bloodUnit.create: the row stays private to the transaction until commit
CreateInTx(h, row) ==
    /\ txUnits' = [txUnits EXCEPT ![h] = @ \cup {row}]
    /\ bloodUnit' = bloodUnit

\* tx.donationRequest.update({ where: { id }, data: { status: "success" } }):
\* the write locks the row until the transaction ends and is not yet visible
TxUpdate(h) ==
    /\ pc[h] = "txUpdate"
    /\ rowLock[donationRequestId[h]] = Null
    /\ rowLock' = [rowLock EXCEPT ![donationRequestId[h]] = h]
    /\ txStatus' = [txStatus EXCEPT ![h] = "success"]
    /\ i' = [i EXCEPT ![h] = 1]
    /\ pc' = [pc EXCEPT ![h] = "txCreate"]
    /\ UNCHANGED <<donationRequest, bloodUnit, envVars, inputVars, found, txUnits,
                   donorDetails, patientDetails, pdfFilePath, certificateUrl, finalMessage, thrown,
                   unlinkCalls, resVars>>
    /\ UNCHANGED auxVars

\* one iteration of for (let i = 1; i <= numberOfUnits; i++)
TxCreate(h) ==
    /\ pc[h] = "txCreate"
    /\ i[h] <= numberOfUnits[h]
    /\ CreateInTx(h, NewBloodUnit(h, i[h]))
    /\ i' = [i EXCEPT ![h] = @ + 1]
    /\ UNCHANGED <<donationRequest, rowLock, envVars, pc, inputVars, found, txStatus,
                   donorDetails, patientDetails, pdfFilePath, certificateUrl, finalMessage, thrown,
                   unlinkCalls, resVars>>
    /\ UNCHANGED auxVars

\* the callback returns and prisma.$transaction commits: all writes of the
\* transaction become visible together; finalMessage is initialised
TxCommit(h) ==
    /\ pc[h] = "txCreate"
    /\ i[h] > numberOfUnits[h]
    /\ donationRequest' = [donationRequest EXCEPT
                             ![donationRequestId[h]].status = txStatus[h]]
    /\ bloodUnit' = bloodUnit \cup txUnits[h]
    /\ rowLock' = [rowLock EXCEPT ![donationRequestId[h]] = Null]
    /\ finalMessage' = [finalMessage EXCEPT ![h] = <<"accepted">>]
    /\ pc' = [pc EXCEPT ![h] = "findDonor"]
    /\ UNCHANGED <<envVars, inputVars, found, i, txStatus, txUnits, donorDetails, patientDetails,
                   pdfFilePath, certificateUrl, thrown, unlinkCalls, resVars>>
    /\ UNCHANGED auxVars

\* a handler that swallows the failure of the transaction and goes on
TxThrowsContinues(h) ==
    /\ pc[h] \in {"txUpdate", "txCreate"}
    /\ txUnits' = [txUnits EXCEPT ![h] = {}]
    /\ txStatus' = [txStatus EXCEPT ![h] = Null]
    /\ rowLock' = [rowLock EXCEPT ![donationRequestId[h]] =
                      IF @ = h THEN Null ELSE @]
    /\ thrown' = [thrown EXCEPT ![h] = "tx"]
    /\ pc' = [pc EXCEPT ![h] = "findDonor"]
    /\ UNCHANGED <<donationRequest, bloodUnit, envVars, inputVars, found, i,
                   donorDetails, patientDetails, pdfFilePath, certificateUrl,
                   finalMessage, unlinkCalls, resVars>>
    /\ UNCHANGED auxVars

\* the update, a create or the commit fails: prisma.$transaction rolls back
\* and rethrows; the outer catch answers 500 (pdfFilePath is still null)
TxThrows(h) ==
    /\ pc[h] \in {"txUpdate", "txCreate"}
    /\ txUnits' = [txUnits EXCEPT ![h] = {}]
    /\ txStatus' = [txStatus EXCEPT ![h] = Null]
    /\ rowLock' = [rowLock EXCEPT ![donationRequestId[h]] =
                      IF @ = h THEN Null ELSE @]
    /\ Throw500(h, "tx")
    /\ UNCHANGED <<donationRequest, bloodUnit, envVars, inputVars, found, i,
                   donorDetails, patientDetails, pdfFilePath, certificateUrl, finalMessage,
                   unlinkCalls>>
    /\ UNCHANGED auxVars

(* ---------------------------------- acceptDonation, certificate sub-workflow *)
\* outcomes of PDFService.generateDonationCertificate: it returns the path of
\* the file it wrote, or throws before or after it has written the file
GeneratorOutcomes(h) ==
    { [path |-> TmpPath(h), written |-> TRUE],
      [path |-> Null,       written |-> FALSE],
      [path |-> Null,       written |-> TRUE] }

\* a handler that answers 200 as soon as the try block is left and leaves
\* the temp file to a later clean-up
LeaveTryRespondFirst(h, m, path) ==
    /\ finalMessage' = [finalMessage EXCEPT ![h] = Append(@, m)]
    /\ Respond(h, 200, certificateUrl[h])

\* the try block is left (normally or through the inner catch) with message
\* part m appended: the finally block awaits fs.unlink when pdfFilePath is
\* set, otherwise the 200 response follows without another await
LeaveTry(h, m, path) ==
    /\ finalMessage' = [finalMessage EXCEPT ![h] = Append(@, m)]
    /\ IF path = Null
         THEN Respond(h, 200, certificateUrl[h])
         ELSE /\ pc' = [pc EXCEPT ![h] = "finally"]
              /\ UNCHANGED resVars

\* an inner catch that lets the error escape to the outer catch
Rethrow(h, site, path) ==
    /\ thrown' = [thrown EXCEPT ![h] = site]
    /\ finalMessage' = finalMessage
    /\ IF path = Null
         THEN Respond(h, 500, Null)
         ELSE /\ pc' = [pc EXCEPT ![h] = "catch"]
              /\ UNCHANGED resVars

\* catch (pdfError): the error of the sub-workflow is logged and swallowed
CatchPdfError(h, site, path) ==
    /\ thrown' = [thrown EXCEPT ![h] = site]
    /\ LeaveTry(h, "failed", path)

\* prisma.donors.findUnique
FindDonor(h) ==
    /\ pc[h] = "findDonor"
    /\ \E d \in {Null, "donor"} : donorDetails' = [donorDetails EXCEPT ![h] = d]
    /\ pc' = [pc EXCEPT ![h] = "findPatient"]
    /\ UNCHANGED <<dbVars, envVars, inputVars, found, i, txStatus, txUnits,
                   patientDetails, pdfFilePath, certificateUrl, finalMessage, thrown, unlinkCalls,
                   resVars>>
    /\ UNCHANGED auxVars

FindDonorThrows(h) ==
    /\ pc[h] = "findDonor"
    /\ CatchPdfError(h, "donor", Null)
    /\ UNCHANGED <<dbVars, envVars, inputVars, found, i, txStatus, txUnits,
                   donorDetails, patientDetails, pdfFilePath, certificateUrl, unlinkCalls>>
    /\ UNCHANGED auxVars

\* a test that looks at patientDetails only: if (patientDetails)
FindPatientOnly(h) ==
    /\ pc[h] = "findPatient"
    /\ \E p \in {Null, "patient"} :
          /\ patientDetails' = [patientDetails EXCEPT ![h] = p]
          /\ IF p # Null
               THEN /\ pc' = [pc EXCEPT ![h] = "generate"]
                    /\ UNCHANGED <<finalMessage, resVars>>
               ELSE LeaveTry(h, "missing", Null)
    /\ UNCHANGED <<dbVars, envVars, inputVars, found, i, txStatus, txUnits,
                   donorDetails, pdfFilePath, certificateUrl, thrown, unlinkCalls>>
    /\ UNCHANGED auxVars

\* prisma.patients.findUnique and the test if (donorDetails && patientDetails)
FindPatient(h) ==
    /\ pc[h] = "findPatient"
    /\ \E p \in {Null, "patient"} :
          /\ patientDetails' = [patientDetails EXCEPT ![h] = p]
          /\ IF donorDetails[h] # Null /\ p # Null
               THEN /\ pc' = [pc EXCEPT ![h] = "generate"]
                    /\ UNCHANGED <<finalMessage, resVars>>
               ELSE LeaveTry(h, "missing", Null)
    /\ UNCHANGED <<dbVars, envVars, inputVars, found, i, txStatus, txUnits,
                   donorDetails, pdfFilePath, certificateUrl, thrown, unlinkCalls>>
    /\ UNCHANGED auxVars

FindPatientThrows(h) ==
    /\ pc[h] = "findPatient"
    /\ CatchPdfError(h, "patient", Null)
    /\ UNCHANGED <<dbVars, envVars, inputVars, found, i, txStatus, txUnits,
                   donorDetails, patientDetails, pdfFilePath, certificateUrl, unlinkCalls>>
    /\ UNCHANGED auxVars

\* pdfFilePath = await PDFService.generateDonationCertificate(...): the
\* assignment happens only when the call returns
Generate(h) ==
    /\ pc[h] = "generate"
    /\ \E o \in GeneratorOutcomes(h) :
          /\ files' = IF o.written THEN files \cup {TmpPath(h)} ELSE files
          /\ IF o.path # Null
               THEN /\ pdfFilePath' = [pdfFilePath EXCEPT ![h] = o.path]
                    /\ pc' = [pc EXCEPT ![h] = "upload"]
                    /\ UNCHANGED <<finalMessage, thrown, resVars>>
               ELSE /\ CatchPdfError(h, "generate", pdfFilePath[h])
                    /\ UNCHANGED pdfFilePath
    /\ UNCHANGED <<dbVars, cloud, inputVars, found, i, txStatus, txUnits,
                   donorDetails, patientDetails, certificateUrl, unlinkCalls>>
    /\ UNCHANGED auxVars

\* cloudinary.uploader.upload(pdfFilePath, ...) and
\* certificateUrl = uploadResult.secure_url
Upload(h) ==
    /\ pc[h] = "upload"
    /\ cloud' = cloud \cup {PublicId(donationRequestId[h])}
    /\ certificateUrl' = [certificateUrl EXCEPT ![h] = SecureUrl(donationRequestId[h])]
    /\ pc' = [pc EXCEPT ![h] = "saveUrl"]
    /\ UNCHANGED <<dbVars, files, inputVars, found, i, txStatus, txUnits,
                   donorDetails, patientDetails, pdfFilePath, finalMessage, thrown, unlinkCalls,
                   resVars>>
    /\ UNCHANGED auxVars

UploadThrows(h) ==
    /\ pc[h] = "upload"
    /\ CatchPdfError(h, "upload", pdfFilePath[h])
    /\ UNCHANGED <<dbVars, envVars, inputVars, found, i, txStatus, txUnits,
                   donorDetails, patientDetails, pdfFilePath, certificateUrl, unlinkCalls>>
    /\ UNCHANGED auxVars

\* prisma.donationRequest.update({ where: { id }, data: { certificateUrl } }),
\* a single write outside the transaction; it waits for a locked row
SaveUrl(h) ==
    /\ pc[h] = "saveUrl"
    /\ rowLock[donationRequestId[h]] = Null
    /\ donationRequest' = [donationRequest EXCEPT
                             ![donationRequestId[h]].certificateUrl = certificateUrl[h]]
    /\ LeaveTry(h, "available", pdfFilePath[h])
    /\ UNCHANGED <<bloodUnit, rowLock, envVars, inputVars, found, i, txStatus,
                   txUnits, donorDetails, patientDetails, pdfFilePath, certificateUrl, thrown,
                   unlinkCalls>>
    /\ UNCHANGED auxVars

SaveUrlThrows(h) ==
    /\ pc[h] = "saveUrl"
    /\ CatchPdfError(h, "saveUrl", pdfFilePath[h])
    /\ UNCHANGED <<dbVars, envVars, inputVars, found, i, txStatus, txUnits,
                   donorDetails, patientDetails, pdfFilePath, certificateUrl, unlinkCalls>>
    /\ UNCHANGED auxVars

\* finally { if (pdfFilePath) await fs.unlink(pdfFilePath) } succeeds and the
\* handler returns res.status(200).json(...)
Finally(h) ==
    /\ pc[h] = "finally"
    /\ pdfFilePath[h] \in files
    /\ files' = files \ {pdfFilePath[h]}
    /\ unlinkCalls' = [unlinkCalls EXCEPT ![h] = @ + 1]
    /\ Respond(h, 200, certificateUrl[h])
    /\ UNCHANGED <<dbVars, cloud, inputVars, found, i, txStatus, txUnits,
                   donorDetails, patientDetails, pdfFilePath, certificateUrl, finalMessage, thrown>>
    /\ UNCHANGED auxVars

\* the fs.unlink of the finally block rejects: the file stays and the error
\* leaves the finally block for the outer catch
FinallyThrows(h) ==
    /\ pc[h] = "finally"
    /\ unlinkCalls' = [unlinkCalls EXCEPT ![h] = @ + 1]
    /\ thrown' = [thrown EXCEPT ![h] = "unlink"]
    /\ pc' = [pc EXCEPT ![h] = "catch"]
    /\ UNCHANGED <<dbVars, envVars, inputVars, found, i, txStatus, txUnits,
                   donorDetails, patientDetails, pdfFilePath, certificateUrl, finalMessage, resVars>>
    /\ UNCHANGED auxVars

\* outer catch with pdfFilePath set: fs.unlink(pdfFilePath).catch(...) is
\* awaited, its failure only logged, then the handler answers 500
Catch(h) ==
    /\ pc[h] = "catch"
    /\ unlinkCalls' = [unlinkCalls EXCEPT ![h] = @ + 1]
    /\ \E ok \in BOOLEAN :
          files' = IF ok THEN files \ {pdfFilePath[h]} ELSE files
    /\ Respond(h, 500, Null)
    /\ UNCHANGED <<dbVars, cloud, inputVars, found, i, txStatus, txUnits,
                   donorDetails, patientDetails, pdfFilePath, certificateUrl, finalMessage, thrown>>
    /\ UNCHANGED auxVars

(* ---------------------------------------------------------- rejectDonation *)
\* a rejection that answers 200 without persisting the new status
RejectUpdateNoWrite(h) ==
    /\ pc[h] = "rejectUpdate"
    /\ Respond(h, 200, Null)
    /\ UNCHANGED <<dbVars, envVars, inputVars, localVars>>
    /\ UNCHANGED auxVars

\* prisma.donationRequest.update({ where: { id }, data: { status: "rejected" } })
\* and the 200 response
RejectUpdate(h) ==
    /\ pc[h] = "rejectUpdate"
    /\ rowLock[donationRequestId[h]] = Null
    /\ donationRequest' = [donationRequest EXCEPT
                             ![donationRequestId[h]].status = "rejected"]
    /\ Respond(h, 200, Null)
    /\ UNCHANGED <<bloodUnit, rowLock, envVars, inputVars, localVars>>
    /\ UNCHANGED auxVars

RejectUpdateThrows(h) ==
    /\ pc[h] = "rejectUpdate"
    /\ Throw500(h, "rejectUpdate")
    /\ UNCHANGED <<dbVars, envVars, inputVars, found, i, txStatus, txUnits,
                   donorDetails, patientDetails, pdfFilePath, certificateUrl, finalMessage,
                   unlinkCalls>>
    /\ UNCHANGED auxVars

(* ----------------------------------------------------------- specification *)
Next ==
    \E h \in Invocations :
        \/ Start(h)
        \/ FindRequest(h)
        \/ FindRequestThrows(h)
        \/ FindBank(h)
        \/ FindBankThrows(h)
        \/ TxUpdate(h)
        \/ TxCreate(h)
        \/ TxCommit(h)
        \/ TxThrows(h)
        \/ FindDonor(h)
        \/ FindDonorThrows(h)
        \/ FindPatient(h)
        \/ FindPatientThrows(h)
        \/ Generate(h)
        \/ Upload(h)
        \/ UploadThrows(h)
        \/ SaveUrl(h)
        \/ SaveUrlThrows(h)
        \/ Finally(h)
        \/ FinallyThrows(h)
        \/ Catch(h)
        \/ RejectUpdate(h)
        \/ RejectUpdateThrows(h)

Spec == Init /\ [][Next]_vars

TypeOK ==
    /\ pc \in [Invocations -> HandlerPcs]
    /\ thrown \in [Invocations -> ThrowSites]
    /\ resStatus \in [Invocations -> {0, 200, 400, 401, 404, 500}]
    /\ \A r \in RequestIds : donationRequest[r].status \in {"pending", "success", "rejected"}

(* ------------------------------------------------------------ abbreviations *)
\* the BloodUnit rows an invocation has created, as a reader of the table sees them
UnitsOf(h) == {u \in bloodUnit : u.id[1] = h}

\* the BloodUnit rows of a DonationRequest
UnitsOfRequest(r) == {u \in bloodUnit : u.donationRequestId = r}

\* the acceptance transaction of the invocation has committed
Committed(h) == finalMessage[h] # <<>>

\* no other invocation works on the DonationRequest of h
Alone(h) ==
    \A g \in Invocations \ {h} :
        pc[g] = "idle" \/ donationRequestId[g] # donationRequestId[h]

\* the caller of h is the blood bank that owns the DonationRequest of h
Owner(h) ==
    /\ donationRequestId[h] \in RequestIds
    /\ bloodBankUserId[h] = RequestBloodBank[donationRequestId[h]]

\* the decimal numerals the unit numbers are expected to be
DecimalNames == <<"1", "2", "3", "4", "5", "6", "7", "8", "9", "10">>

(* ------------------------------------------------------------------ claims *)
\* C1: a DonationRequest's status only ever changes from pending to success
\* or from pending to rejected; once success or rejected it never changes.
C1_StatusOnlyLeavesPending ==
    [][\A r \in RequestIds :
          donationRequest[r].status # "pending"
            => donationRequest'[r].status = donationRequest[r].status]_vars

\* C2: of two acceptDonation invocations on the same pending DonationRequest
\* exactly one commits its transaction; the other creates no BloodUnit rows.
C2_OneAcceptanceCommits ==
    \A g, h \in Invocations :
        (g # h /\ op[g] = "accept" /\ op[h] = "accept"
              /\ donationRequestId[g] = donationRequestId[h])
          => ~(Committed(g) /\ Committed(h))

C4_ExactlyNUnits ==
    \A h \in Invocations :
        Committed(h) =>
          /\ Cardinality(UnitsOf(h)) = numberOfUnits[h]
          /\ {u.unitNumber : u \in UnitsOf(h)}
               = {DecimalNames[n] : n \in 1..numberOfUnits[h]}
          /\ \A u \in UnitsOf(h) :
                /\ u.status = "available"
                /\ u.donationRequestId = donationRequestId[h]
          /\ (\A g \in Invocations \ {h} :
                 ~(Committed(g) /\ donationRequestId[g] = donationRequestId[h]))
               => UnitsOfRequest(donationRequestId[h]) = UnitsOf(h)

\* an acceptance with more than one unit has committed and responded
C4_Witness ==
    \E h \in Invocations :
        /\ Committed(h) /\ numberOfUnits[h] >= 2
        /\ pc[h] = "done" /\ resStatus[h] = 200

\* C5: when the generator returned a temp file path, fs.unlink is called on
\* it exactly once and the file does not exist when the response is sent.
C5_TempFileDeletedOnce ==
    \A h \in Invocations :
        (pc[h] = "done" /\ pdfFilePath[h] # Null)
          => unlinkCalls[h] = 1 /\ pdfFilePath[h] \notin files

\* C6: when certificate generation throws, its temp file does not exist when
\* acceptDonation has sent its response.
C6_NoTempFileAfterGenerationThrows ==
    \A h \in Invocations :
        (pc[h] = "done" /\ thrown[h] = "generate") => TmpPath(h) \notin files

\* C7: once the acceptance transaction has committed, acceptDonation
\* responds 200 whatever fails in the certificate sub-workflow.
C7_CommittedRespondsOk ==
    \A h \in Invocations :
        (pc[h] = "done" /\ Committed(h)) => resStatus[h] = 200

\* C8: when PDF generation throws after the commit, the response is 200 with
\* certificateUrl null and the degraded-certificate message, all N BloodUnit
\* rows stay and the step changes no DonationRequest and no BloodUnit; with
\* no other invocation on the request it is success with a null certificateUrl.
C8_GenerationFailureKeepsCommit ==
    /\ [](\A h \in Invocations :
             (pc[h] = "done" /\ thrown[h] = "generate") =>
               /\ resStatus[h] = 200
               /\ resCertificateUrl[h] = Null
               /\ finalMessage[h] = <<"accepted", "failed">>
               /\ Cardinality(UnitsOf(h)) = numberOfUnits[h]
               /\ Alone(h) =>
                    /\ donationRequest[donationRequestId[h]].status = "success"
                    /\ donationRequest[donationRequestId[h]].certificateUrl = Null)
    /\ [][\A h \in Invocations :
             (thrown[h] # "generate" /\ thrown'[h] = "generate")
               => donationRequest' = donationRequest /\ bloodUnit' = bloodUnit]_vars

\* PDF generation threw in an invocation that is alone on its request
C8_Witness ==
    \E h \in Invocations :
        /\ pc[h] = "done" /\ thrown[h] = "generate" /\ Alone(h)
        /\ numberOfUnits[h] >= 2

\* C9: an acceptDonation whose lookup runs on a DonationRequest that is not
\* pending responds 404, owner or not, and changes no DonationRequest and no
\* BloodUnit; an invocation that responded 404 has created no row.
C9_NotPendingIs404 ==
    /\ [](\A h \in Invocations :
             (op[h] = "accept" /\ resStatus[h] = 404)
               => UnitsOf(h) = {} /\ txUnits[h] = {} /\ ~Committed(h))
    /\ [][\A h \in Invocations :
             (/\ op[h] = "accept" /\ pc[h] = "findRequest"
              /\ donationRequestId[h] \in RequestIds
              /\ donationRequest[donationRequestId[h]].status # "pending"
              /\ pc'[h] # pc[h] /\ thrown'[h] = "none")
               => /\ pc'[h] = "done" /\ resStatus'[h] = 404
                  /\ donationRequest' = donationRequest
                  /\ bloodUnit' = bloodUnit]_vars

\* the owning blood bank got 404 for a request that was no longer pending
C9_Witness ==
    \E h \in Invocations :
        /\ op[h] = "accept" /\ Owner(h) /\ resStatus[h] = 404
        /\ donationRequest[donationRequestId[h]].status = "success"

\* C10: a rejectDonation whose lookup found the owner's pending request sets
\* its status to rejected and responds 200; a rejectDonation whose lookup
\* runs after a rejection of the same request responded 200 responds 404 and
\* changes no DonationRequest.
C10_RejectThenNotFound ==
    /\ [](\A h \in Invocations :
             (op[h] = "reject" /\ resStatus[h] = 200)
               => found[h] = "pending" /\ Owner(h))
    /\ [][\A h \in Invocations :
             (/\ pc[h] = "rejectUpdate" /\ pc'[h] = "done" /\ thrown'[h] = "none")
               => /\ donationRequest'[donationRequestId[h]].status = "rejected"
                  /\ resStatus'[h] = 200]_vars
    /\ [][\A h \in Invocations :
             (/\ op[h] = "reject" /\ pc[h] = "findRequest"
              /\ \E g \in Invocations \ {h} :
                    /\ op[g] = "reject" /\ resStatus[g] = 200
                    /\ donationRequestId[g] = donationRequestId[h]
              /\ pc'[h] # pc[h] /\ thrown'[h] = "none")
               => /\ pc'[h] = "done" /\ resStatus'[h] = 404
                  /\ donationRequest' = donationRequest]_vars

\* a second rejection of a rejected request by its owner got 404
C10_Witness ==
    \E g, h \in Invocations :
        /\ g # h /\ op[g] = "reject" /\ op[h] = "reject"
        /\ donationRequestId[g] = donationRequestId[h]
        /\ resStatus[g] = 200 /\ resStatus[h] = 404 /\ Owner(h)
        /\ donationRequest[donationRequestId[h]].status = "rejected"

\* the invocation takes a step
Stepped(h) == pc'[h] # pc[h] \/ i'[h] # i[h]

\* the steps of the certificate sub-workflow
SubWorkflowPcs == {"findDonor", "findPatient", "generate", "upload", "saveUrl",
                   "finally", "catch"}

\* C11: acceptDonation checks the body, then the caller, then the request,
\* then the blood bank: an invalid body yields 400 whoever calls, a valid
\* body without caller 401 whatever the request, a missing, not-owned or
\* not-pending request 404 without a blood-bank lookup, a missing blood-bank
\* record 404.
C11_PreconditionOrder ==
    [][\A h \in Invocations :
          /\ (pc[h] = "idle" /\ pc'[h] # "idle" /\ op'[h] = "accept") =>
               /\ Issues(body'[h]) # {} => pc'[h] = "done" /\ resStatus'[h] = 400
               /\ (Issues(body'[h]) = {} /\ bloodBankUserId'[h] = Null)
                    => pc'[h] = "done" /\ resStatus'[h] = 401
               /\ (Issues(body'[h]) = {} /\ bloodBankUserId'[h] # Null)
                    => pc'[h] = "findRequest" /\ resStatus'[h] = 0
          /\ (/\ op[h] = "accept" /\ pc[h] = "findRequest"
              /\ pc'[h] # pc[h] /\ thrown'[h] = "none") =>
               IF /\ donationRequestId[h] \in RequestIds
                  /\ RequestBloodBank[donationRequestId[h]] = bloodBankUserId[h]
                  /\ donationRequest[donationRequestId[h]].status = "pending"
                 THEN pc'[h] = "findBank" /\ resStatus'[h] = 0
                 ELSE pc'[h] = "done" /\ resStatus'[h] = 404
          /\ (pc[h] = "findBank" /\ pc'[h] # pc[h] /\ thrown'[h] = "none") =>
               IF bloodBankUserId[h] \in BloodBanks
                 THEN pc'[h] = "txUpdate" /\ resStatus'[h] = 0
                 ELSE pc'[h] = "done" /\ resStatus'[h] = 404]_vars

\* an invalid body without caller got 400, and a valid body for a missing
\* request without caller got 401
C11_Witness ==
    \E g, h \in Invocations :
        /\ op[g] = "accept" /\ Issues(body[g]) # {} /\ bloodBankUserId[g] = Null
        /\ resStatus[g] = 400
        /\ op[h] = "accept" /\ Issues(body[h]) = {} /\ bloodBankUserId[h] = Null
        /\ donationRequestId[h] = MissingRequestId /\ resStatus[h] = 401

\* C12: an invocation that responds 400, 401 or 404 has written nothing: no
\* step it takes before that response changes a DonationRequest, a BloodUnit,
\* a local file or the object storage.
C12_RefusalsMutateNothing ==
    /\ [](\A h \in Invocations :
             resStatus[h] \in {400, 401, 404} =>
               /\ pc[h] = "done" /\ i[h] = 0 /\ thrown[h] = "none"
               /\ txStatus[h] = Null /\ txUnits[h] = {} /\ UnitsOf(h) = {}
               /\ finalMessage[h] = <<>>
               /\ pdfFilePath[h] = Null /\ certificateUrl[h] = Null
               /\ unlinkCalls[h] = 0 /\ TmpPath(h) \notin files
               /\ \A r \in RequestIds : rowLock[r] # h)
    /\ [][\A h \in Invocations :
             (pc'[h] # pc[h] /\ i[h] = 0 /\ pc[h] \in {"idle", "findRequest", "findBank"})
               => /\ donationRequest' = donationRequest
                  /\ bloodUnit' = bloodUnit
                  /\ files' = files
                  /\ cloud' = cloud]_vars

\* a blood bank without record got 404 from acceptDonation while another
\* acceptance with a certificate is in the store
C12_Witness ==
    \E g, h \in Invocations :
        /\ op[h] = "accept" /\ bloodBankUserId[h] = "bankC" /\ Owner(h)
        /\ resStatus[h] = 404
        /\ donationRequest[donationRequestId[h]].status = "pending"
        /\ Committed(g) /\ UnitsOf(g) # {}
        /\ donationRequest[donationRequestId[g]].certificateUrl # Null

\* C13: a step of an invocation by blood bank B changes no DonationRequest
\* whose bloodBankId is not B and creates no BloodUnit row for it; its lookup
\* of such a request responds 404.
C13_OnlyOwnerMutates ==
    /\ [](\A u \in bloodUnit :
             /\ u.bloodBankId = donationRequest[u.donationRequestId].bloodBankId
             /\ u.bloodBankId = bloodBankUserId[u.id[1]])
    /\ [][\A h \in Invocations :
             Stepped(h) =>
               \A r \in RequestIds :
                  (\/ donationRequest'[r] # donationRequest[r]
                   \/ {u \in bloodUnit' : u.donationRequestId = r}
                        # {u \in bloodUnit : u.donationRequestId = r})
                    => donationRequest[r].bloodBankId = bloodBankUserId[h]]_vars
    /\ [][\A h \in Invocations :
             (/\ pc[h] = "findRequest" /\ pc'[h] # pc[h] /\ thrown'[h] = "none"
              /\ donationRequestId[h] \in RequestIds
              /\ donationRequest[donationRequestId[h]].bloodBankId # bloodBankUserId[h])
               => pc'[h] = "done" /\ resStatus'[h] = 404]_vars

\* a blood bank got 404 for another bank's pending request
C13_Witness ==
    \E h \in Invocations :
        /\ donationRequestId[h] \in RequestIds /\ ~Owner(h)
        /\ bloodBankUserId[h] \in BloodBanks /\ resStatus[h] = 404
        /\ donationRequest[donationRequestId[h]].status = "pending"

\* C17: when the donor or the patient record is missing after the commit,
\* acceptDonation generates and uploads nothing, no temp file exists, the
\* response is 200 with certificateUrl null and the missing-details message;
\* the persisted certificateUrl stays null when no other invocation works on
\* the request.
C17_MissingDetailsSkipCertificate ==
    /\ [](\A h \in Invocations :
             (/\ pc[h] = "done" /\ Cardinality(UnitsOf(h)) >= 1
              /\ thrown[h] \notin {"donor", "patient"}
              /\ (donorDetails[h] = Null \/ patientDetails[h] = Null)) =>
               /\ resStatus[h] = 200
               /\ resCertificateUrl[h] = Null
               /\ finalMessage[h] = <<"accepted", "missing">>
               /\ pdfFilePath[h] = Null /\ certificateUrl[h] = Null
               /\ unlinkCalls[h] = 0 /\ TmpPath(h) \notin files
               /\ Alone(h) =>
                    /\ donationRequest[donationRequestId[h]].certificateUrl = Null
                    /\ PublicId(donationRequestId[h]) \notin cloud)
    /\ [][\A h \in Invocations :
             (pc[h] = "findPatient" /\ pc'[h] = "done" /\ thrown'[h] = "none")
               => /\ donationRequest' = donationRequest
                  /\ files' = files
                  /\ cloud' = cloud]_vars

\* the donor was found and the patient was not
C17_Witness ==
    \E h \in Invocations :
        /\ pc[h] = "done" /\ UnitsOf(h) # {} /\ thrown[h] = "none"
        /\ donorDetails[h] # Null /\ patientDetails[h] = Null /\ Alone(h)

\* C20: the lookups, PDF generation, the upload and the certificateUrl write
\* of an invocation happen only after its transaction has committed; when
\* the transaction fails the invocation ends without any of them and without
\* a temp file.
C20_SubWorkflowAfterCommit ==
    /\ [](\A h \in Invocations :
             (\/ pc[h] \in SubWorkflowPcs
              \/ pdfFilePath[h] # Null \/ certificateUrl[h] # Null
              \/ TmpPath(h) \in files \/ donorDetails[h] # Null)
               => /\ numberOfUnits[h] >= 1
                  /\ Cardinality(UnitsOf(h)) = numberOfUnits[h])
    /\ [](\A h \in Invocations :
             thrown[h] = "tx" =>
               /\ pc[h] = "done" /\ resStatus[h] = 500
               /\ pdfFilePath[h] = Null /\ certificateUrl[h] = Null
               /\ TmpPath(h) \notin files
               /\ Alone(h) =>
                    /\ donationRequest[donationRequestId[h]].certificateUrl = Null
                    /\ PublicId(donationRequestId[h]) \notin cloud)
    /\ [][\A h \in Invocations :
             (/\ Stepped(h)
              /\ \/ files' # files
                 \/ cloud' # cloud
                 \/ \E r \in RequestIds :
                       donationRequest'[r].certificateUrl
                         # donationRequest[r].certificateUrl)
               => UnitsOf(h) # {}]_vars

\* one acceptance failed in its transaction while another one uploaded its
\* certificate
C20_Witness ==
    \E g, h \in Invocations :
        /\ thrown[h] = "tx" /\ resStatus[h] = 500 /\ i[h] > 1
        /\ certificateUrl[g] # Null /\ resStatus[g] = 200

(* -------------------------------------------- acceptDonation, the dates *)
\* the years the clock starts in: a leap year and its neighbours
Years == 2023..2025

\* midnights that may pass while the handler runs
MaxTicks == 1

IsLeapYear(y) == (y % 4 = 0 /\ y % 100 # 0) \/ y % 400 = 0

DaysInMonth(y, m) ==
    IF m = 2 THEN (IF IsLeapYear(y) THEN 29 ELSE 28)
    ELSE IF m \in {4, 6, 9, 11} THEN 30 ELSE 31

\* the calendar date of a Date object in local time
NewDate(y, m, d) == [year |-> y, month |-> m, date |-> d]

Dates ==
    UNION {{NewDate(ym[1], ym[2], d) : d \in 1..DaysInMonth(ym[1], ym[2])} :
           ym \in Years \X (1..12)}

\* Date.prototype.setDate(n) for n >= 1: day n of the object's own month, days
\* beyond the end of the month running into the following months
RECURSIVE setDate(_, _)
setDate(t, n) ==
    IF n <= DaysInMonth(t.year, t.month)
      THEN [t EXCEPT !.date = n]
      ELSE setDate(IF t.month = 12 THEN NewDate(t.year + 1, 1, 1)
                                   ELSE NewDate(t.year, t.month + 1, 1),
                   n - DaysInMonth(t.year, t.month))

\* days from the first day of Years to the first day of month m of year y
RECURSIVE DaysBefore(_, _)
DaysBefore(y, m) ==
    IF m = 1 /\ (\A z \in Years : y <= z) THEN 0
    ELSE IF m = 1 THEN DaysInMonth(y - 1, 12) + DaysBefore(y - 1, 12)
    ELSE DaysInMonth(y, m - 1) + DaysBefore(y, m - 1)

\* the number of a calendar day
DayNumber(t) == DaysBefore(t.year, t.month) + t.date

\* const donationDate = new Date()
ReadDonationDate ==
    /\ datePc = "donationDate"
    /\ donationDate' = now
    /\ datePc' = "expiryDate"
    /\ UNCHANGED <<now, ticks, expiryDays, expiryDate, unitDates>>
    /\ UNCHANGED exceptDates

\* const expiryDate = new Date()
ReadExpiryDate ==
    /\ datePc = "expiryDate"
    /\ expiryDate' = now
    /\ datePc' = "setDate"
    /\ UNCHANGED <<now, ticks, expiryDays, donationDate, unitDates>>
    /\ UNCHANGED exceptDates

\* expiryDate.setDate(donationDate.getDate() + expiryDays)
SetExpiryDate ==
    /\ datePc = "setDate"
    /\ expiryDate' = setDate(expiryDate, donationDate.date + expiryDays)
    /\ datePc' = "create"
    /\ UNCHANGED <<now, ticks, expiryDays, donationDate, unitDates>>
    /\ UNCHANGED exceptDates

\* tx.bloodUnit.create({ data: { ..., donationDate, expiryDate, ... } })
CreateDated ==
    /\ datePc = "create"
    /\ unitDates' = {[donationDate |-> donationDate, expiryDate |-> expiryDate]}
    /\ datePc' = "done"
    /\ UNCHANGED <<now, ticks, expiryDays, donationDate, expiryDate>>
    /\ UNCHANGED exceptDates

\* midnight passes
Tick ==
    /\ ticks < MaxTicks
    /\ datePc # "done"
    /\ now' = setDate(now, now.date + 1)
    /\ ticks' = ticks + 1
    /\ UNCHANGED <<datePc, expiryDays, donationDate, expiryDate, unitDates>>
    /\ UNCHANGED exceptDates

\* the handler reaches line 71 on any day, with any shelf life the schema
\* lets through: omitted, the least and the greatest
InitDates ==
    /\ donationRequest = PendingRequests
    /\ bloodUnit = {}
    /\ InitAccept
    /\ now \in Dates
    /\ ticks = 0
    /\ datePc = "donationDate"
    /\ expiryDays \in {OrDefault(x, DefaultExpiryDays) :
                        x \in {Absent, Num(1, 0), Num(MaxExpiryDays, 0)}}
    /\ donationDate = Null
    /\ expiryDate = Null
    /\ unitDates = {}
    /\ UnitsIdle
    /\ LoginIdle
    /\ DownloadIdle
    /\ CorsIdle
    /\ AuthIdle

NextDates ==
    \/ ReadDonationDate
    \/ ReadExpiryDate
    \/ SetExpiryDate
    \/ CreateDated
    \/ Tick

SpecDates == InitDates /\ [][NextDates]_vars

\* C15: every BloodUnit created by acceptDonation has its expiryDate exactly
\* expiryDays calendar days after its donationDate (35 when expiryDays is
\* omitted), whenever the handler runs.
C15_ExpiryIsDonationPlusDays ==
    \A u \in unitDates :
        DayNumber(u.expiryDate) = DayNumber(u.donationDate) + expiryDays

(* ---------------------------------------------------------- getBloodUnits *)
\* rows of the BloodUnit table at the time of a query
MaxRows == 2

\* the statuses summary counts
UnitStatuses == {"available", "used", "expired", "discarded"}

\* BloodUnit rows as getBloodUnits reads them; donationDate orders them
UnitRow(k, a) ==
    [id |-> k, bloodBankId |-> a[1], status |-> a[2], donorBloodType |-> a[3],
     donationDate |-> k]

UnitTables ==
    UNION {{{UnitRow(k, f[k]) : k \in 1..n} :
             f \in [1..n -> BloodBanks \X UnitStatuses \X {"A+", "O-"}]} :
           n \in 0..MaxRows}

\* req.query.status: absent, a status, an unknown or an empty string, or an
\* array (a repeated parameter)
QueryStatuses ==
    {Absent, Str("", 0), Str("reserved", 8), [t |-> "array"]}
        \cup {Str(x, 1) : x \in UnitStatuses}

\* where: { bloodBankId } with no regard to req.query.status
WhereBankOnly(u, q, row) == row.bloodBankId = u

\* whereClause: bloodBankId, and status if (status && typeof status === "string")
WhereClause(u, q, row) ==
    /\ row.bloodBankId = u
    /\ (q.t = "str" /\ q.len > 0) => row.status = q.v

\* orderBy: { donationDate: "desc" }
RECURSIVE OrderByDesc(_)
OrderByDesc(rows) ==
    IF rows = {} THEN <<>>
    ELSE LET top == CHOOSE r \in rows : \A o \in rows : o.donationDate <= r.donationDate
         IN  <<top>> \o OrderByDesc(rows \ {top})

\* a summary whose byBloodType adds up something else than 1 per row
SummaryByTotal(data) ==
    LET CountOf(x) == Cardinality({k \in DOMAIN data : data[k].status = x})
    IN  [total |-> Len(data),
         available |-> CountOf("available"),
         used |-> CountOf("used"),
         expired |-> CountOf("expired"),
         discarded |-> CountOf("discarded"),
         byBloodType |->
             [t \in {data[k].donorBloodType : k \in DOMAIN data} |-> Len(data)]]

\* lines 297-309
Summary(data) ==
    LET CountOf(x) == Cardinality({k \in DOMAIN data : data[k].status = x})
    IN  [total |-> Len(data),
         available |-> CountOf("available"),
         used |-> CountOf("used"),
         expired |-> CountOf("expired"),
         discarded |-> CountOf("discarded"),
         byBloodType |->
             [t \in {data[k].donorBloodType : k \in DOMAIN data} |->
                 Cardinality({k \in DOMAIN data : data[k].donorBloodType = t})]]

\* getBloodUnits up to its await
GetUnitsStart ==
    /\ unitsPc = "idle"
    /\ \E u \in UserIds, q \in QueryStatuses :
          /\ unitsUser' = u
          /\ queryStatus' = q
          /\ IF u = Null
               THEN /\ unitsPc' = "done"
                    /\ unitsRes' = [status |-> 401]
               ELSE /\ unitsPc' = "findMany"
                    /\ UNCHANGED unitsRes
    /\ UNCHANGED exceptUnits

\* prisma.bloodUnit.findMany, the summary and the 200 response
GetUnitsFindMany ==
    /\ unitsPc = "findMany"
    /\ LET data == OrderByDesc({row \in bloodUnit :
                                  WhereClause(unitsUser, queryStatus, row)})
       IN  unitsRes' = [status |-> 200, data |-> data, summary |-> Summary(data)]
    /\ unitsPc' = "done"
    /\ UNCHANGED <<unitsUser, queryStatus>>
    /\ UNCHANGED exceptUnits

\* findMany throws: the catch block answers 500
GetUnitsThrows ==
    /\ unitsPc = "findMany"
    /\ unitsRes' = [status |-> 500]
    /\ unitsPc' = "done"
    /\ UNCHANGED <<unitsUser, queryStatus>>
    /\ UNCHANGED exceptUnits

\* any BloodUnit table
InitUnits ==
    /\ donationRequest = PendingRequests
    /\ bloodUnit \in UnitTables
    /\ InitAccept
    /\ DatesIdle
    /\ UnitsIdle
    /\ LoginIdle
    /\ DownloadIdle
    /\ CorsIdle
    /\ AuthIdle

NextUnits ==
    \/ GetUnitsStart
    \/ GetUnitsFindMany
    \/ GetUnitsThrows

SpecUnits == InitUnits /\ [][NextUnits]_vars

\* C16: getBloodUnits with status filter S returns exactly the caller's rows
\* whose status is S, all of the caller's rows without filter, never a row of
\* another blood bank; with S = available, summary.available is the number
\* of rows returned.
C16_ExactlyTheCallersRows ==
    (unitsPc = "done" /\ unitsRes.status = 200) =>
        LET data == unitsRes.data
            returned == {data[k] : k \in DOMAIN data}
        IN  /\ Len(data) = Cardinality(returned)
            /\ \A row \in returned : row.bloodBankId = unitsUser
            /\ (queryStatus.t = "str" /\ queryStatus.len > 0) =>
                 returned = {row \in bloodUnit : /\ row.bloodBankId = unitsUser
                                                 /\ row.status = queryStatus.v}
            /\ queryStatus = Absent =>
                 returned = {row \in bloodUnit : row.bloodBankId = unitsUser}
            /\ queryStatus = Str("available", 1) =>
                 unitsRes.summary.available = Len(data)

\* a query for available units returned one of the caller's two rows
C16_Witness ==
    /\ unitsPc = "done" /\ unitsRes.status = 200
    /\ queryStatus = Str("available", 1)
    /\ Len(unitsRes.data) = 1
    /\ Cardinality({row \in bloodUnit : row.bloodBankId = unitsUser}) = 2

(* ------------------------------------ donorLogin, patientLogin, adminLogin *)
LoginRoles == {"donor", "patient", "admin"}

MinPasswordLength == 8

\* an address as its parts around the "@"; z.string().email() wants a local
\* part, the "@" and a domain
Address(local, domain) == <<local, "@", domain>>
IsEmail(v) == Len(v) = 3 /\ v[1] # "" /\ v[2] = "@" /\ v[3] # ""

\* bcrypt: compare(password, hash) is true for the hash of that password
Hash(password) == <<"bcrypt", password>>
Compare(password, hash) == hash = Hash(password)

\* the donors, patients and bloodBanks tables: one account each
Accounts ==
    [role \in LoginRoles |->
        {[id |-> role, email |-> Address(role, "example.com"),
          password |-> Hash("secret-pw")]}]

\* req.body of a login: each key absent, of the wrong type, malformed, or
\* well formed and known or unknown
LoginBodies ==
    [email : {Absent, Num(1, 0), Str(<<"not-an-email">>, 12),
              Str(Address("test", "example.com"), 16)}
                 \cup {Str(Address(role, "example.com"), 16) : role \in LoginRoles},
     password : {Absent, Num(1, 0), Str("short", 5), Str("secret-pw", 9),
                 Str("wrongpassword", 13)}]

\* a schema that leaves the format of the email alone
LoginIssuesNoFormat(b) ==
    {f \in {"email", "password"} :
        CASE f = "email" -> b.email.t # "str"
          [] f = "password" ->
               ~(b.password.t = "str" /\ b.password.len >= MinPasswordLength)}

\* the issues of donorLoginSchema.parse (the three schemas are the same)
LoginIssues(b) ==
    {f \in {"email", "password"} :
        CASE f = "email" -> ~(b.email.t = "str" /\ IsEmail(b.email.v))
          [] f = "password" ->
               ~(b.password.t = "str" /\ b.password.len >= MinPasswordLength)}

\* generateToken(id): header, payload and signature in base64url, joined by dots
Token(id) == <<"e", "y", "J", "h", ".", "e", "y", "J", id, ".", "s", "i", "g">>

\* the Set-Cookie header of res.cookie(name, value, { httpOnly, secure,
\* sameSite: "none", maxAge })
SetCookie(name, value) ==
    name \o <<"=">> \o value \o
    <<";", " ", "M", "a", "x", "-", "A", "g", "e", "=", "6", "0", "4", "8", "0", "0", ";", " ", "P", "a", "t", "h", "=", "/", ";", " ", "H", "t", "t", "p", "O", "n", "l", "y", ";", " ", "S", "e", "c", "u", "r", "e", ";", " ", "S", "a", "m", "e", "S", "i", "t", "e", "=", "N", "o", "n", "e">>

\* res.cookie("authToken", token, ...)
AuthCookie(token) ==
    SetCookie(<<"a", "u", "t", "h", "T", "o", "k", "e", "n">>, token)

\* String.prototype.includes
Includes(str, sub) ==
    \E k \in 1..(Len(str) - Len(sub) + 1) : SubSeq(str, k, k + Len(sub) - 1) = sub

\* res.status(s).json(...) of a login handler, with the cookies set before
LoginRespond(s, message, cookies) ==
    /\ loginPc' = "done"
    /\ loginRes' = [status |-> s, setCookie |-> cookies,
                    body |-> [success |-> (s = 200), message |-> message]]

\* a login handler up to its first await: parse, ZodError -> 400
LoginStart ==
    /\ loginPc = "idle"
    /\ \E role \in LoginRoles, b \in LoginBodies :
          /\ loginRole' = role
          /\ loginData' = b
          /\ IF LoginIssues(b) # {}
               THEN LoginRespond(400, "Invalid input data", {})
               ELSE /\ loginPc' = "findFirst"
                    /\ UNCHANGED loginRes
    /\ UNCHANGED loginAccount
    /\ UNCHANGED exceptLogin

\* a lookup whose 401 says that the email is unknown
LoginFindFirstTelling ==
    /\ loginPc = "findFirst"
    /\ LET rows == {a \in Accounts[loginRole] : a.email = loginData.email.v}
       IN  IF rows = {}
             THEN /\ LoginRespond(401, "No account with this email", {})
                  /\ UNCHANGED loginAccount
             ELSE /\ loginAccount' \in rows
                  /\ loginPc' = "compare"
                  /\ UNCHANGED loginRes
    /\ UNCHANGED <<loginRole, loginData>>
    /\ UNCHANGED exceptLogin

\* prisma.<table>.findFirst({ where: { email } }) and the 401 that follows
LoginFindFirst ==
    /\ loginPc = "findFirst"
    /\ LET rows == {a \in Accounts[loginRole] : a.email = loginData.email.v}
       IN  IF rows = {}
             THEN /\ LoginRespond(401, "Invalid email or password", {})
                  /\ UNCHANGED loginAccount
             ELSE /\ loginAccount' \in rows
                  /\ loginPc' = "compare"
                  /\ UNCHANGED loginRes
    /\ UNCHANGED <<loginRole, loginData>>
    /\ UNCHANGED exceptLogin

\* bcrypt.compare, then 401, or the token, the cookie and the 200 response
LoginCompare ==
    /\ loginPc = "compare"
    /\ IF Compare(loginData.password.v, loginAccount.password)
         THEN LoginRespond(200, "Login successful",
                           {AuthCookie(Token(loginAccount.id))})
         ELSE LoginRespond(401, "Invalid email or password", {})
    /\ UNCHANGED <<loginRole, loginData, loginAccount>>
    /\ UNCHANGED exceptLogin

\* findFirst, bcrypt.compare or generateToken throws: the catch block answers
\* 500, before any cookie is set
LoginThrows ==
    /\ loginPc \in {"findFirst", "compare"}
    /\ LoginRespond(500, "Internal server error", {})
    /\ UNCHANGED <<loginRole, loginData, loginAccount>>
    /\ UNCHANGED exceptLogin

NextLogin ==
    \/ LoginStart
    \/ LoginFindFirst
    \/ LoginCompare
    \/ LoginThrows

SpecLogin == Init /\ [][NextLogin]_vars

\* C18: a login with a missing email, a missing password or a malformed
\* email responds 400 without a lookup and without a cookie; a well-formed
\* email and password that match no account respond 401.
C18_LoginValidation ==
    /\ [][(loginPc = "idle" /\ loginPc' # "idle"
             /\ \/ loginData'.email = Absent
                \/ loginData'.password = Absent
                \/ (loginData'.email.t = "str" /\ ~IsEmail(loginData'.email.v)))
            => /\ loginPc' = "done"
               /\ loginRes'.status = 400 /\ loginRes'.setCookie = {}
               /\ loginAccount' = Null]_vars
    /\ [](loginPc = "done" =>
            /\ loginRes.status \in {400, 401, 500} => loginRes.setCookie = {}
            /\ loginRes.status = 400 => loginAccount = Null
            /\ (/\ loginRes.status # 500
                /\ loginData.email.t = "str" /\ IsEmail(loginData.email.v)
                /\ loginData.password.t = "str"
                /\ loginData.password.len >= MinPasswordLength
                /\ \A role \in LoginRoles :
                      \A a \in Accounts[role] :
                         ~(/\ role = loginRole
                           /\ a.email = loginData.email.v
                           /\ a.password = Hash(loginData.password.v)))
                 => loginRes.status = 401)

\* a malformed email got 400
C18_Witness ==
    /\ loginPc = "done"
    /\ loginData.email.t = "str" /\ ~IsEmail(loginData.email.v)
    /\ loginData.password = Str("secret-pw", 9)
    /\ loginRes.status = 400

\* C19: every 200 response of a login carries a Set-Cookie header that
\* contains 'jwt=', and no other login response does.
C19_JwtCookieOn200 ==
    loginPc = "done" =>
        (loginRes.status = 200) =
            (\E c \in loginRes.setCookie : Includes(c, <<"j", "w", "t", "=">>))

(* ------------------------------------------ acceptDonationSchema, alone *)
\* request bodies around every limit of acceptDonationSchema: values of the
\* wrong type, numbers below, on, between and above the limits (f counts
\* tenths), notes of 0, 500 and 501 characters
SchemaBodies ==
    [donationRequestId : {Absent, Str("req1", 36), Str("not-a-uuid", 10), Num(1, 0)},
     numberOfUnits : {Absent, Num(0, 0), Num(0, 5), Num(1, 0), Num(1, 5),
                      Num(MaxNumberOfUnits, 0), Num(MaxNumberOfUnits, 5),
                      Num(MaxNumberOfUnits + 1, 0), Str("2", 1)},
     notes : {Absent, Str("n", 0), Str("n", MaxNotesLength),
              Str("n", MaxNotesLength + 1), Num(1, 0)},
     expiryDays : {Absent, Num(0, 0), Num(1, 0), Num(DefaultExpiryDays, 5),
                   Num(MaxExpiryDays, 0), Num(MaxExpiryDays + 1, 0)}]

\* acceptDonation up to its first await, on any of these bodies
StartSchema ==
    /\ pc["h1"] = "idle"
    /\ \E u \in UserIds, b \in SchemaBodies : AcceptStart("h1", u, b)
    /\ UNCHANGED <<dbVars, envVars, localVars>>
    /\ UNCHANGED auxVars

NextSchema == StartSchema

SpecSchema == Init /\ [][NextSchema]_vars

\* C14: acceptDonation responds 400 whenever donationRequestId is not a
\* UUID, numberOfUnits is not an integer in 1..10, expiryDays is not an
\* integer in 1..42 or notes is longer than 500 characters, a non-integer
\* inside the numeric range included.
C14_InvalidBodyIs400 ==
    \A h \in Invocations :
        LET b == body[h]
            IntegerIn(x, lo, hi) ==
                x.t = "num" /\ x.frac = 0 /\ x.int \in lo..hi
            valid ==
                /\ b.donationRequestId.t = "str" /\ b.donationRequestId.v \in Uuids
                /\ b.numberOfUnits.t = "absent"
                     \/ IntegerIn(b.numberOfUnits, 1, MaxNumberOfUnits)
                /\ b.expiryDays.t = "absent"
                     \/ IntegerIn(b.expiryDays, 1, MaxExpiryDays)
                /\ b.notes.t = "absent"
                     \/ (b.notes.t = "str" /\ b.notes.len <= MaxNotesLength)
        IN  (op[h] = "accept" /\ ~valid) => resStatus[h] = 400

\* C21: acceptDonation sends its 200 response only after the certificate
\* sub-workflow has ended and after the temp file it was given has been
\* deleted; after the response the invocation takes no step.
C21_ResponseAfterSubWorkflow ==
    /\ [](\A h \in Invocations :
             (op[h] = "accept" /\ resStatus[h] = 200) =>
               /\ pc[h] = "done"
               /\ Len(finalMessage[h]) = 2
               /\ certificateUrl[h] # Null => PublicId(donationRequestId[h]) \in cloud
               /\ pdfFilePath[h] # Null =>
                    unlinkCalls[h] = 1 /\ pdfFilePath[h] \notin files)
    /\ [][\A h \in Invocations :
             resStatus[h] # 0 =>
               /\ ~Stepped(h)
               /\ pdfFilePath'[h] = pdfFilePath[h]
               /\ certificateUrl'[h] = certificateUrl[h]
               /\ unlinkCalls'[h] = unlinkCalls[h]
               /\ finalMessage'[h] = finalMessage[h]
               /\ resStatus'[h] = resStatus[h]]_vars

\* a 200 response after upload, certificateUrl write and unlink
C21_Witness ==
    \E h \in Invocations :
        /\ op[h] = "accept" /\ resStatus[h] = 200
        /\ finalMessage[h] = <<"accepted", "available">>
        /\ unlinkCalls[h] = 1 /\ resCertificateUrl[h] # Null

\* C25: every DonationRequest that has a BloodUnit row has status success.
C25_UnitsOnlyOnSuccess ==
    \A r \in RequestIds :
        UnitsOfRequest(r) # {} => donationRequest[r].status = "success"

\* C26: every DonationRequest with a certificateUrl has status success.
C26_CertificateOnlyOnSuccess ==
    \A r \in RequestIds :
        donationRequest[r].certificateUrl # Null
          => donationRequest[r].status = "success"

\* C27: the certificateUrl of an acceptDonation 200 response is the one the
\* invocation persisted: it is null whenever the message reports that
\* certificate generation failed.
C27_ReturnedUrlIsPersisted ==
    \A h \in Invocations :
        (op[h] = "accept" /\ resStatus[h] = 200) =>
          /\ finalMessage[h][2] = "failed" => resCertificateUrl[h] = Null
          /\ Alone(h) => resCertificateUrl[h]
                           = donationRequest[donationRequestId[h]].certificateUrl

\* C28: no two BloodUnit rows have the same barcode.
C28_BarcodesUnique ==
    \A u, v \in bloodUnit : u # v => u.barcode # v.barcode

\* C22: in every getBloodUnits 200 response summary.total is the number of
\* rows returned, summary.available, used, expired and discarded are the
\* numbers of returned rows with that status, and summary.byBloodType maps
\* each blood type returned to the number of returned rows of that type, so
\* that its counts add up to summary.total.
C22_SummaryCountsReturnedRows ==
    (unitsPc = "done" /\ unitsRes.status = 200) =>
        LET data == unitsRes.data
            summary == unitsRes.summary
            Rows(P(_)) == Cardinality({k \in 1..Len(data) : P(data[k])})
            RECURSIVE Sum(_, _)
            Sum(f, S) == IF S = {} THEN 0
                         ELSE LET t == CHOOSE t \in S : TRUE
                              IN  f[t] + Sum(f, S \ {t})
        IN  /\ summary.total = Len(data)
            /\ summary.available = Rows(LAMBDA row : row.status = "available")
            /\ summary.used = Rows(LAMBDA row : row.status = "used")
            /\ summary.expired = Rows(LAMBDA row : row.status = "expired")
            /\ summary.discarded = Rows(LAMBDA row : row.status = "discarded")
            /\ DOMAIN summary.byBloodType
                 = {data[k].donorBloodType : k \in 1..Len(data)}
            /\ \A t \in DOMAIN summary.byBloodType :
                  summary.byBloodType[t]
                    = Rows(LAMBDA row : row.donorBloodType = t)
            /\ Sum(summary.byBloodType, DOMAIN summary.byBloodType) = summary.total

\* two rows of different blood types and statuses were returned
C22_Witness ==
    /\ unitsPc = "done" /\ unitsRes.status = 200
    /\ unitsRes.summary.total = 2
    /\ unitsRes.summary.used = 1 /\ unitsRes.summary.expired = 1
    /\ Cardinality(DOMAIN unitsRes.summary.byBloodType) = 2

\* C29: a login with an unknown email and a login with a known email and a
\* wrong password get the same response, 401 with the same body and no
\* cookie.
C29_SameResponseForUnknownAndWrong ==
    loginPc = "done" =>
        /\ loginRes.status = 401 =>
             loginRes = [status |-> 401, setCookie |-> {},
                         body |-> [success |-> FALSE,
                                   message |-> "Invalid email or password"]]
        /\ (/\ loginRes.status \notin {400, 500}
            /\ \/ \A a \in Accounts[loginRole] : a.email # loginData.email.v
               \/ \E a \in Accounts[loginRole] :
                     /\ a.email = loginData.email.v
                     /\ a.password # Hash(loginData.password.v))
             => loginRes.status = 401

\* a known email with a wrong password got 401
C29_Witness ==
    /\ loginPc = "done" /\ loginRes.status = 401
    /\ \E a \in Accounts[loginRole] : a.email = loginData.email.v
    /\ loginData.password = Str("wrongpassword", 13)

(* -------------------------------------------- downloadDonationCertificate *)
\* donorId of the DonationRequest rows
RequestDonor == [r \in RequestIds |-> IF r = "req2" THEN "donor2" ELSE "donor1"]

\* a where clause without the OR on donorId and bloodBankId
DownloadWhereAnyUser(r, u) ==
    /\ r \in RequestIds
    /\ donationRequest[r].status = "success"

\* where: { id, OR: [{ donorId: userId }, { bloodBankId: userId }],
\* status: 'success' }. A key whose value is undefined is left out of the
\* query; an OR none of whose conditions is left matches no row
DownloadWhere(r, u) ==
    /\ r \in RequestIds
    /\ donationRequest[r].status = "success"
    /\ \E c \in {RequestDonor[r], donationRequest[r].bloodBankId} :
          u # Null /\ c = u

\* prisma.donationRequest.findFirst and the 404 that follows
DownloadFindFirst ==
    /\ downloadPc = "idle"
    /\ \E u \in {Null, "donor1", "donor2"} \cup BloodBanks, r \in Uuids,
          throws \in BOOLEAN :
          LET permitted == DownloadWhere(r, u)
          IN  /\ downloadUser' = u
              /\ downloadId' = r
              /\ IF throws
                   THEN /\ downloadPc' = "done"
                        /\ downloadRes' = [status |-> 500, pdf |-> Null]
                   ELSE IF permitted
                   THEN /\ downloadPc' = "details"
                        /\ UNCHANGED downloadRes
                   ELSE /\ downloadPc' = "done"
                        /\ downloadRes' = [status |-> 404, pdf |-> Null]
    /\ UNCHANGED <<oldVars, corsVars, authVars>>

\* the four lookups of Promise.all and the 500 for a missing donor, patient
\* or blood bank
DownloadDetails ==
    /\ downloadPc = "details"
    /\ \E complete \in BOOLEAN :
          IF complete
            THEN /\ downloadPc' = "generate"
                 /\ UNCHANGED downloadRes
            ELSE /\ downloadPc' = "done"
                 /\ downloadRes' = [status |-> 500, pdf |-> Null]
    /\ UNCHANGED <<downloadUser, downloadId>>
    /\ UNCHANGED <<oldVars, corsVars, authVars>>

\* the certificate is generated and piped into the response
DownloadGenerate ==
    /\ downloadPc = "generate"
    /\ downloadPc' = "done"
    /\ downloadRes' = [status |-> 200, pdf |-> downloadId]
    /\ UNCHANGED <<downloadUser, downloadId>>
    /\ UNCHANGED <<oldVars, corsVars, authVars>>

\* a lookup of Promise.all or the generator throws: the catch block answers 500
DownloadThrows ==
    /\ downloadPc \in {"details", "generate"}
    /\ downloadPc' = "done"
    /\ downloadRes' = [status |-> 500, pdf |-> Null]
    /\ UNCHANGED <<downloadUser, downloadId>>
    /\ UNCHANGED <<oldVars, corsVars, authVars>>

\* DonationRequest rows of any status
InitDownload ==
    /\ donationRequest \in
         [RequestIds -> [bloodBankId : BloodBanks \cup {"bankC"},
                         status : {"pending", "success", "rejected"},
                         certificateUrl : {Null}]]
    /\ \A r \in RequestIds : donationRequest[r].bloodBankId = RequestBloodBank[r]
    /\ bloodUnit = {}
    /\ InitAccept
    /\ DatesIdle
    /\ UnitsIdle
    /\ LoginIdle
    /\ DownloadIdle
    /\ CorsIdle
    /\ AuthIdle

NextDownload ==
    \/ DownloadFindFirst
    \/ DownloadDetails
    \/ DownloadGenerate
    \/ DownloadThrows

SpecDownload == InitDownload /\ [][NextDownload]_vars

\* C23: downloadDonationCertificate returns a certificate only for a request
\* of status success and a caller who is its donor or its blood bank; every
\* other caller, one without identity included, gets 404.
C23_OnlyDonorOrBankDownloads ==
    downloadPc = "done" =>
        LET permitted ==
                /\ downloadId \in RequestIds
                /\ donationRequest[downloadId].status = "success"
                /\ downloadUser \in {RequestDonor[downloadId],
                                     donationRequest[downloadId].bloodBankId}
        IN  /\ downloadRes.status = 200 =>
                 permitted /\ downloadRes.pdf = downloadId
            /\ (~permitted /\ downloadRes.status # 500) =>
                 downloadRes.status = 404 /\ downloadRes.pdf = Null

\* a caller without identity asked for the certificate of a successful
\* donation and got 404
C23_Witness ==
    /\ downloadPc = "done" /\ downloadUser = Null
    /\ downloadId \in RequestIds
    /\ donationRequest[downloadId].status = "success"
    /\ downloadRes.status = 404

(* ---------------------------------------------- corsEnhancementMiddleware *)
DefaultOrigins ==
    <<"http://localhost:3000", "http://localhost:3001",
      "https://bb-frontend-seven.vercel.app",
      "https://bloodbank-frontend.vercel.app">>

\* getAllowedOrigins: the defaults, then the entries of ADDITIONAL_CORS_ORIGINS
\* split at "," and trimmed. The value of the variable is a sequence of
\* pieces of text, "," and " " being pieces of their own; unset is Null.
getAllowedOrigins(env) ==
    LET RECURSIVE Split(_)
        Split(str) ==
            IF \A k \in 1..Len(str) : str[k] # "," THEN <<str>>
            ELSE LET k == CHOOSE k \in 1..Len(str) :
                              str[k] = "," /\ \A j \in 1..(k - 1) : str[j] # ","
                 IN  <<SubSeq(str, 1, k - 1)>> \o Split(SubSeq(str, k + 1, Len(str)))
        RECURSIVE Trim(_)
        Trim(str) ==
            IF str # <<>> /\ Head(str) = " " THEN Trim(Tail(str))
            ELSE IF str # <<>> /\ str[Len(str)] = " "
                   THEN Trim(SubSeq(str, 1, Len(str) - 1))
            ELSE str
        RECURSIVE Text(_)
        Text(str) == IF str = <<>> THEN "" ELSE Head(str) \o Text(Tail(str))
        entries == IF env = Null \/ env = <<>> THEN <<>> ELSE Split(env)
    IN  DefaultOrigins \o [k \in 1..Len(entries) |-> Text(Trim(entries[k]))]

\* a test that lets every origin through
AnyOriginAllowed(origin) == TRUE

\* isOriginAllowed: no origin, or one of corsConfig.allowedOrigins
isOriginAllowed(origin) ==
    IF origin = Null \/ origin = "" THEN TRUE
    ELSE \E k \in 1..Len(allowedOrigins) : allowedOrigins[k] = origin

\* corsEnhancementMiddleware on one request
CorsMiddleware ==
    /\ corsReq.method = Null
    /\ \E origin \in {Null, "", "http://localhost:3000",
                      "https://bloodbank-frontend.vercel.app",
                      "https://extra.example", "https://other.example",
                      " https://other.example", "https://evil.example",
                      "http://localhost:3000.evil.example"},
          method \in {"GET", "POST", "DELETE", "OPTIONS"} :
          LET allowOrigin ==
                  IF origin # Null /\ origin # "" /\ isOriginAllowed(origin)
                    THEN "Access-Control-Allow-Origin" :> origin
                    ELSE <<>>
              always ==
                  "Access-Control-Allow-Credentials" :> "true"
                  @@ "Access-Control-Allow-Methods"
                       :> "GET, POST, PUT, DELETE, OPTIONS, PATCH"
                  @@ "Access-Control-Allow-Headers"
                       :> ("Content-Type, Authorization, X-Requested-With, "
                           \o "Accept, Origin, Access-Control-Request-Method, "
                           \o "Access-Control-Request-Headers, Cache-Control, "
                           \o "Pragma")
                  @@ "Access-Control-Expose-Headers"
                       :> "Content-Length, Content-Range, Set-Cookie"
          IN  /\ corsReq' = [origin |-> origin, method |-> method]
              /\ corsRes' =
                   IF method = "OPTIONS"
                     THEN [headers |-> allowOrigin @@ always
                                         @@ "Access-Control-Max-Age" :> "86400",
                           status |-> 200, next |-> FALSE]
                     ELSE [headers |-> allowOrigin @@ always,
                           status |-> 0, next |-> TRUE]
    /\ UNCHANGED <<additionalOrigins, allowedOrigins>>
    /\ UNCHANGED <<oldVars, downloadVars, authVars>>

\* the module is loaded with ADDITIONAL_CORS_ORIGINS unset, empty, or holding
\* one or more entries, with blanks or an empty entry among them
InitCors ==
    /\ donationRequest = PendingRequests
    /\ bloodUnit = {}
    /\ InitAccept
    /\ DatesIdle
    /\ UnitsIdle
    /\ LoginIdle
    /\ DownloadIdle
    /\ AuthIdle
    /\ additionalOrigins \in
         {Null, <<>>, <<"https://extra.example">>,
          <<"https://extra.example", ",", " ", "https://other.example", " ">>,
          <<"https://extra.example", ",">>}
    /\ allowedOrigins = getAllowedOrigins(additionalOrigins)
    /\ corsReq = [origin |-> Null, method |-> Null]
    /\ corsRes = [headers |-> <<>>, status |-> 0, next |-> FALSE]

SpecCors == InitCors /\ [][CorsMiddleware]_vars

\* C24: corsEnhancementMiddleware sets Access-Control-Allow-Origin, to the
\* request's Origin, exactly when that origin is one of the defaults or an
\* entry of ADDITIONAL_CORS_ORIGINS; it answers OPTIONS with 200 without
\* calling next, and calls next for every other method.
C24_AllowOriginOnlyForListed ==
    corsReq.method # Null =>
        LET origin == corsReq.origin
            additional ==
                IF additionalOrigins = Null THEN {}
                ELSE IF Len(additionalOrigins) = 0 THEN {}
                ELSE IF Len(additionalOrigins) <= 2 THEN {"https://extra.example"}
                ELSE {"https://extra.example", "https://other.example"}
            listed == origin # Null /\ origin # ""
                        /\ origin \in {DefaultOrigins[k] : k \in 1..4} \cup additional
            set == "Access-Control-Allow-Origin" \in DOMAIN corsRes.headers
        IN  /\ set = listed
            /\ set => corsRes.headers["Access-Control-Allow-Origin"] = origin
            /\ corsReq.method = "OPTIONS" => corsRes.status = 200 /\ ~corsRes.next
            /\ corsReq.method # "OPTIONS" => corsRes.status = 0 /\ corsRes.next

\* a preflight request from an origin listed in ADDITIONAL_CORS_ORIGINS
\* between blanks
C24_Witness ==
    /\ corsReq = [origin |-> "https://other.example", method |-> "OPTIONS"]
    /\ "Access-Control-Allow-Origin" \in DOMAIN corsRes.headers
    /\ corsRes.status = 200


(* ------------------------------------------------------------- verifyAuth *)
\* the ids that tokens are issued for
AuthIds == {"user1", "user2"}

\* the lookups in another order
RoleOrderAdminFirst == <<"admin", "donor", "patient">>

\* the order of the lookups: donors, patients, bloodBanks
RoleOrder == <<"donor", "patient", "admin">>

\* verifyToken(token): the payload of a token that generateToken signed and
\* that has not expired; it throws on every other token
verifyToken(token, expired) ==
    IF ~expired /\ \E id \in AuthIds : token = Token(id)
      THEN [throws |-> FALSE,
            userId |-> CHOOSE id \in AuthIds : token = Token(id)]
      ELSE [throws |-> TRUE]

\* lines 20-33: the cookie is read and the token verified
AuthStart ==
    /\ authPc = "idle"
    /\ \E cookie \in {Absent, Str(<<>>, 0), Str(<<"g", "a", "r", "b">>, 4)}
                       \cup {Str(Token(id), 13) : id \in AuthIds},
          expired \in BOOLEAN :
          LET decoded == verifyToken(cookie.v, expired)
          IN  /\ cookie.t = "absent" \/ cookie.len = 0 => ~expired
              /\ authCookie' = [cookie |-> cookie, expired |-> expired]
              /\ IF cookie.t = "absent" \/ cookie.len = 0
                   THEN /\ authRes' = [status |-> 401, role |-> Null,
                                       message |-> "No authentication token found"]
                        /\ authPc' = "done"
                        /\ UNCHANGED authUserId
                 ELSE IF decoded.throws
                   THEN /\ authRes' = [status |-> 401, role |-> Null,
                                       message |-> "Invalid or expired token"]
                        /\ authPc' = "done"
                        /\ UNCHANGED authUserId
                 ELSE /\ authUserId' = decoded.userId
                      /\ authPc' = RoleOrder[1]
                      /\ UNCHANGED authRes
    /\ UNCHANGED authTables
    /\ UNCHANGED <<oldVars, downloadVars, corsVars>>

\* lines 40-112: one findFirst({ where: { id: userId } }) returns; a row ends
\* the search with its role, no row in the last table is "User not found"
AuthLookup ==
    /\ authPc \in LoginRoles
    /\ LET k == CHOOSE k \in 1..Len(RoleOrder) : RoleOrder[k] = authPc
       IN  IF authUserId \in authTables[authPc]
             THEN /\ authRes' = [status |-> 200, role |-> authPc, message |-> Null]
                  /\ authPc' = "done"
           ELSE IF k = Len(RoleOrder)
             THEN /\ authRes' = [status |-> 401, role |-> Null,
                                 message |-> "User not found"]
                  /\ authPc' = "done"
           ELSE /\ authPc' = RoleOrder[k + 1]
                /\ UNCHANGED authRes
    /\ UNCHANGED <<authCookie, authUserId, authTables>>
    /\ UNCHANGED <<oldVars, downloadVars, corsVars>>

\* lines 113-119: a findFirst throws
AuthThrows ==
    /\ authPc \in LoginRoles
    /\ authRes' = [status |-> 401, role |-> Null,
                   message |-> "Invalid or expired token"]
    /\ authPc' = "done"
    /\ UNCHANGED <<authCookie, authUserId, authTables>>
    /\ UNCHANGED <<oldVars, downloadVars, corsVars>>

\* the three tables hold any of the ids
InitAuth ==
    /\ donationRequest = PendingRequests
    /\ bloodUnit = {}
    /\ InitAccept
    /\ DatesIdle
    /\ UnitsIdle
    /\ LoginIdle
    /\ DownloadIdle
    /\ CorsIdle
    /\ authPc = "idle"
    /\ authCookie = Null
    /\ authUserId = Null
    /\ authRes = Null
    /\ authTables \in [LoginRoles -> SUBSET AuthIds]

NextAuth ==
    \/ AuthStart
    \/ AuthLookup
    \/ AuthThrows

SpecAuth == InitAuth /\ [][NextAuth]_vars

\* C30: verifyAuth never responds 500. It responds 401 when the authToken
\* cookie is absent, when the token is invalid or expired, when a lookup
\* throws, and when the token's userId is in none of the three tables;
\* otherwise it responds 200 with the one role of the first table that holds
\* the id, in the order donor, patient, admin.
C30_RoleOfFirstTable ==
    authPc = "done" =>
        LET cookie == authCookie.cookie
            noToken == cookie.t = "absent" \/ cookie.len = 0
            valid == /\ ~noToken
                     /\ ~authCookie.expired
                     /\ \E id \in AuthIds : cookie.v = Token(id)
            known == \E role \in LoginRoles : authUserId \in authTables[role]
            first == IF authUserId \in authTables["donor"] THEN "donor"
                     ELSE IF authUserId \in authTables["patient"] THEN "patient"
                     ELSE "admin"
            threw == valid /\ authRes.message = "Invalid or expired token"
        IN  /\ authRes.status \in {200, 401}
            /\ noToken \/ ~valid \/ ~known \/ threw => authRes.status = 401
            /\ valid /\ known /\ ~threw =>
                   /\ authRes.status = 200
                   /\ authRes.role = first
                   /\ cookie.v = Token(authUserId)

\* the id of the token is a patient and a blood bank but no donor
C30_Witness ==
    /\ authPc = "done"
    /\ authRes.status = 200
    /\ authRes.role = "patient"
    /\ authUserId \notin authTables["donor"]
    /\ authUserId \in authTables["patient"]
    /\ authUserId \in authTables["admin"]

====
